---- MODULE Spec2Model ----
(***************************************************************************)
(* Model of the post backend of Rifle-Rod-and-Club.                        *)
(*                                                                         *)
(* The repository holds two versions of the server:                        *)
(*   src/server.js          posts in a PostgreSQL table (async handlers),  *)
(*   src/unnamed/part_000   posts in posts.json (synchronous handlers).    *)
(* The variable impl says which of the two the process runs; it is chosen  *)
(* at start and never changes.                                             *)
(*                                                                         *)
(* A handler of src/server.js runs up to its first `await pool.query`,     *)
(* and again from the delivery of each result to the next await or to the  *)
(* answer.  The database executes a statement at some instant between the  *)
(* two; statements and continuations of other requests run in between.     *)
(* The model has one step for the start of a handler together with the     *)
(* execution of its first statement, one for each later statement, and one *)
(* for each continuation.                                                  *)
(***************************************************************************)
EXTENDS Integers, Sequences, FiniteSets, Bags, TLC

VARIABLES
    impl,            \* "pg" = src/server.js, "file" = src/unnamed/part_000
    ADMIN_PASSWORD,  \* process.env.ADMIN_PASSWORD, read once at start
    imagesColumn,    \* type of the images column of the posts table
    table,           \* rows of the posts table (server.js)
    nextId,          \* next value of the id sequence of the posts table
    postsFile,       \* content of posts.json (part_000), a list of posts
    clock,           \* wall clock, in milliseconds
    inflight,        \* bag of the handlers of server.js waiting at an await
    answer           \* the answer sent by the step just taken, NoAnswer if none

vars == <<impl, ADMIN_PASSWORD, imagesColumn, table, nextId, postsFile,
          clock, inflight, answer>>

----------------------------------------------------------------------------
(* Bounds of the model *)

MaxPosts == 2      \* posts ever created (table), posts in posts.json
MaxClock == 2      \* the clock runs from 1 to MaxClock
MaxFiles == 2      \* files uploaded with one request
MaxRand == 1       \* Math.round(Math.random() * 1e9) is drawn from 0..MaxRand
MaxInflight == 2   \* handlers of server.js waiting for the database at one time
MaxWaiting == 1    \* the same under SpecGate, SpecImages and SpecStored
MaxImagePosts == 1 \* posts under SpecImages
MaxTextLen == 5    \* tokens of a stored images text under SpecStored

----------------------------------------------------------------------------
(* JavaScript values *)

\* the value `undefined` of a request field that is absent
Undef == "<undefined>"
\* the empty string of a path-valued field; a path is a non-empty tuple
NoPath == <<>>
\* SQL NULL / JS null / undefined of a timestamp
NullTime == 0

\* truthiness of a string-valued request field: !x is true for undefined, ""
Truthy(x) == x # Undef /\ x # ""
\* x || ""
OrEmpty(x) == IF Truthy(x) THEN x ELSE ""

\* new Date(t).toISOString(): the textual form of a millisecond time
toISOString(t) == <<"iso", t>>
\* new Date(s) of such a text, as a number
DateOf(s) == s[2]

\* The values the images of a row or post can be: a string, which is a path
\* (NoPath for ""), or the one-character string "/", or a list of such
\* values.  A list is tagged, so that it differs from every string.
List(elems) == <<"list", elems>>
IsList(v) == Len(v) = 2 /\ v[1] = "list"
Elems(v) == v[2]
\* s[0] of a non-empty string: every string here is an upload path, which
\* starts with "/", or that character itself
FirstChar(s) == <<"/">>

\* x || y on such values: only "" is falsy (a list is truthy, [] too)
PathOr(x, y) == IF x # NoPath THEN x ELSE y

\* v[0] || "": the first element of a list, the first character of a
\* string, "" when there is none
First(v) ==
    IF IsList(v) THEN (IF Len(Elems(v)) > 0 THEN Elems(v)[1] ELSE NoPath)
    ELSE IF v # NoPath THEN FirstChar(v)
    ELSE NoPath

----------------------------------------------------------------------------
(* Upload file names: multer.diskStorage filename callback *)

storage_filename(fieldname, now, rnd, ext) == <<fieldname, now, rnd, ext>>

\* `/uploads/${file.filename}`
UploadUrl(filename) == <<"/uploads/">> \o filename

\* the files multer stored for one request: the callback runs once per file
\* and reads the clock and draws a random number each time
FilesOf(times, draws) ==
    [i \in 1..Len(draws) |-> storage_filename("images", times[i], draws[i], ".png")]

DrawLists == UNION { [1..n -> 0..MaxRand] : n \in 0..MaxFiles }

\* the clock readings of the files of a request whose handler starts at
\* now: multer stores the files, one after the other, before the handler
TimeLists(n, now) ==
    { t \in [1..n -> 1..now] : \A i, j \in 1..n : i < j => t[i] <= t[j] }

\* the file lists a request can arrive with at now
FileLists(draws, now) ==
    { FilesOf(t, d) : t \in TimeLists(MaxFiles, now), d \in draws }

\* (req.files || []).map((file) => `/uploads/${file.filename}`)
imageUrlsOf(files) == List([i \in 1..Len(files) |-> UploadUrl(files[i])])

----------------------------------------------------------------------------
(* JSON text.  A text is a sequence of tokens: <<"[">>, <<"]">>, <<",">>,  *)
(* <<" ">>, string literals <<"str", s>> and <<"raw", s>>, the characters  *)
(* of the string s written without quotes.                                 *)

TokOpen == <<"[">>
TokClose == <<"]">>
TokComma == <<",">>
TokSpace == <<" ">>
StrLit(s) == <<"str", s>>
Raw(s) == <<"raw", s>>

RECURSIVE JSONstringify(_)
RECURSIVE JSONelements(_)
JSONelements(arr) ==
    IF Len(arr) = 0 THEN <<>>
    ELSE IF Len(arr) = 1 THEN JSONstringify(arr[1])
    ELSE JSONstringify(arr[1]) \o <<TokComma>> \o JSONelements(Tail(arr))

\* JSON.stringify of a string or of a list
JSONstringify(v) ==
    IF IsList(v) THEN <<TokOpen>> \o JSONelements(Elems(v)) \o <<TokClose>>
    ELSE <<StrLit(v)>>

NoSpace(text) == SelectSeq(text, LAMBDA t : t # TokSpace)

\* String.prototype.trim() !== ""
TrimNonEmpty(text) == Len(NoSpace(text)) > 0

\* the JSON value that starts at token i of t, and the index after it
RECURSIVE ParseValue(_, _)
RECURSIVE ParseElements(_, _, _)
ParseValue(t, i) ==
    IF i > Len(t) THEN [ok |-> FALSE, val |-> NoPath, next |-> i]
    ELSE IF t[i][1] = "str" THEN [ok |-> TRUE, val |-> t[i][2], next |-> i + 1]
    ELSE IF t[i] # TokOpen THEN [ok |-> FALSE, val |-> NoPath, next |-> i]
    ELSE IF i + 1 <= Len(t) /\ t[i + 1] = TokClose
         THEN [ok |-> TRUE, val |-> List(<<>>), next |-> i + 2]
         ELSE ParseElements(t, i + 1, <<>>)

\* the elements of a list from token i on, after the elements in acc
ParseElements(t, i, acc) ==
    LET e == ParseValue(t, i)
        j == e.next
    IN  IF ~e.ok \/ j > Len(t) THEN [ok |-> FALSE, val |-> NoPath, next |-> j]
        ELSE IF t[j] = TokComma THEN ParseElements(t, j + 1, Append(acc, e.val))
        ELSE IF t[j] = TokClose
             THEN [ok |-> TRUE, val |-> List(Append(acc, e.val)), next |-> j + 1]
             ELSE [ok |-> FALSE, val |-> NoPath, next |-> j]

\* JSON.parse of a text: ok = FALSE when it throws
JSONparse(text) ==
    LET t == NoSpace(text)
        r == ParseValue(t, 1)
    IN  IF r.ok /\ r.next = Len(t) + 1
        THEN [ok |-> TRUE, val |-> r.val]
        ELSE [ok |-> FALSE, val |-> NoPath]

\* row.images as the driver hands it to JavaScript: an array, or a string
JsArray(a) == [t |-> "array", v |-> a]
JsString(s) == [t |-> "string", v |-> s]

\* the normalisation of row.images done by mapDbPost and by the PUT
\* handler: an array as it is, a non-blank string as JSON.parse returns
\* it, [] when JSON.parse throws and in every other case
normalizeImages(images) ==
    IF images.t = "array" THEN images.v
    ELSE IF images.t = "string" /\ TrimNonEmpty(images.v)
         THEN (IF JSONparse(images.v).ok THEN JSONparse(images.v).val ELSE List(<<>>))
         ELSE List(<<>>)

----------------------------------------------------------------------------
(* The posts table *)

\* what the driver hands to JavaScript for the images column of a row: the
\* text of a text column; the parsed value of a jsonb column, which is an
\* array or a string
PgImages(text) ==
    IF imagesColumn = "jsonb"
    THEN LET v == JSONparse(text).val
         IN  IF IsList(v) THEN JsArray(v) ELSE JsString(<<Raw(v)>>)
    ELSE JsString(text)

\* a row as returned by SELECT / RETURNING; no statement returns a column
\* named date
PgRow(r) ==
    [id |-> r.id, title |-> r.title, category |-> r.category, content |-> r.content,
     images |-> PgImages(r.images), image_url |-> r.image_url,
     affiliate_link |-> r.affiliate_link, created_at |-> r.created_at,
     updated_at |-> r.updated_at, date |-> NullTime]

mapDbPost(row) ==
    LET images == normalizeImages(row.images)
        createdAt == IF row.created_at # NullTime THEN row.created_at ELSE row.date
        updatedAt == row.updated_at
    IN  [id |-> row.id,
         title |-> row.title,
         category |-> OrEmpty(row.category),
         content |-> row.content,
         images |-> images,
         imageUrl |-> PathOr(row.image_url, First(images)),
         affiliateLink |-> OrEmpty(row.affiliate_link),
         date |-> IF createdAt # NullTime THEN toISOString(createdAt) ELSE NoPath,
         updatedAt |-> IF updatedAt # NullTime THEN toISOString(updatedAt) ELSE NoPath]

----------------------------------------------------------------------------
(* Requests and answers *)

Secrets == {Undef, "pw"}
Passwords == {Undef, "pw", "bad"}

\* title, category, content, affiliateLink of a request body
Fields(title, category, content, link) ==
    [title |-> title, category |-> category, content |-> content, affiliateLink |-> link]

ValidFields == { Fields("t1", "c1", "b1", "a1"), Fields("t2", Undef, "b1", Undef) }
InvalidFields == { Fields(Undef, "c1", "b1", "a1"), Fields("", Undef, "b1", Undef),
                   Fields("t1", "c1", Undef, "a1"), Fields("t2", Undef, "", Undef) }

Ids == 1..(IF MaxPosts > MaxClock THEN MaxPosts ELSE MaxClock)

\* the multipart body of POST /api/posts and PUT /api/posts/:id with the
\* files multer stored for it; id is Number(req.params.id), 0 for POST
Request(pw, id, f, files) ==
    [adminPassword |-> pw, id |-> id, title |-> f.title, category |-> f.category,
     content |-> f.content, affiliateLink |-> f.affiliateLink, files |-> files]

NoFields == Fields(Undef, Undef, Undef, Undef)
NoRequest == Request(Undef, 0, NoFields, <<>>)

\* res.status(status).json(...): body is the list of posts in the answer,
\* io the statements the handler ran against the post storage
Answer(op, req, status, body, io) ==
    [op |-> op, req |-> req, status |-> status, body |-> body, io |-> io]

NoAnswer == Answer("none", NoRequest, 0, <<>>, {})

\* a handler of server.js waiting at `await pool.query`: at says which
\* statement it waits for and whether the database has executed it, rows
\* is result.rows of the last statement executed for it; existing and now
\* are the locals existingResult.rows and updatedAt of the PUT handler
Call(op, at, req, rows) ==
    [at |-> at, op |-> op, req |-> req, rows |-> rows, existing |-> <<>>, now |-> NullTime]

\* the handler leaves the await (or ends) / arrives at an await
Resume(call) == inflight (-) SetToBag({call})
Await(bag, call) == bag (+) SetToBag({call})

----------------------------------------------------------------------------
(* src/server.js *)

\* a WHERE clause that matches every row
RowsWithId_all(id) == table

RowsWithId(id) == { r \in table : r.id = id }

\* a gate that refuses only a request without adminPassword
Unauthorized_missingOnly(req) == req.adminPassword = Undef

\* the admin gate of the three mutating handlers
Unauthorized(req) == req.adminPassword # ADMIN_PASSWORD

\* a validation that forgets the content
MissingFields_titleOnly(req) == ~Truthy(req.title)

\* the validation of POST and PUT
MissingFields(req) == ~Truthy(req.title) \/ ~Truthy(req.content)

\* the defaults of the columns id and created_at, which INSERT leaves out:
\* the next value of the table's sequence, the time of the insert
PostsIdDefault == nextId
PostsCreatedAtDefault == clock

\* the row INSERT stores for a request
InsertedRow(req, id, now) ==
    LET imageUrls == imageUrlsOf(req.files)
    IN  [id |-> id,
         title |-> req.title,
         category |-> OrEmpty(req.category),
         content |-> req.content,
         images |-> JSONstringify(imageUrls),
         image_url |-> First(imageUrls),
         affiliate_link |-> OrEmpty(req.affiliateLink),
         created_at |-> now,
         updated_at |-> NullTime]

\* POST /api/posts up to its await, and the execution of its INSERT
CreatePost(req) ==
    /\ impl = "pg"
    /\ IF Unauthorized(req)
       THEN /\ answer' = Answer("create", req, 401, <<>>, {})
            /\ UNCHANGED <<table, nextId, inflight>>
       ELSE IF MissingFields(req)
       THEN /\ answer' = Answer("create", req, 400, <<>>, {})
            /\ UNCHANGED <<table, nextId, inflight>>
       ELSE LET row == InsertedRow(req, PostsIdDefault, PostsCreatedAtDefault)
            IN  /\ table' = table \cup {row}
                /\ nextId' = nextId + 1
                /\ inflight' = Await(inflight, Call("create", "inserted", req, <<PgRow(row)>>))
                /\ answer' = NoAnswer
    /\ UNCHANGED <<impl, ADMIN_PASSWORD, imagesColumn, postsFile, clock>>

\* POST /api/posts from the result of its INSERT on (lines 153-155)
CreatePostAnswer(call) ==
    /\ impl = "pg"
    /\ BagIn(call, inflight)
    /\ call.at = "inserted"
    /\ inflight' = Resume(call)
    /\ answer' = Answer("create", call.req, 200, <<mapDbPost(call.rows[1])>>, {"insert"})
    /\ UNCHANGED <<impl, ADMIN_PASSWORD, imagesColumn, table, nextId, postsFile, clock>>

\* PUT /api/posts/:id up to its first await, and the execution of its SELECT
UpdatePostSelect(req) ==
    /\ impl = "pg"
    /\ IF Unauthorized(req)
       THEN /\ answer' = Answer("update", req, 401, <<>>, {})
            /\ UNCHANGED inflight
       ELSE IF MissingFields(req)
       THEN /\ answer' = Answer("update", req, 400, <<>>, {})
            /\ UNCHANGED inflight
       ELSE LET found == RowsWithId(req.id)
                rows == IF found = {} THEN <<>> ELSE <<PgRow(CHOOSE r \in found : TRUE)>>
            IN  /\ inflight' = Await(inflight, Call("update", "selected", req, rows))
                /\ answer' = NoAnswer
    /\ UNCHANGED <<impl, ADMIN_PASSWORD, imagesColumn, table, nextId, postsFile, clock>>

\* PUT /api/posts/:id from the result of its SELECT to its second await
\* (lines 191-223): 404, or the parameters of the UPDATE with the clock
\* read at line 220
UpdatePostPrepare(call) ==
    /\ impl = "pg"
    /\ BagIn(call, inflight)
    /\ call.at = "selected"
    /\ IF Len(call.rows) = 0
       THEN /\ inflight' = Resume(call)
            /\ answer' = Answer("update", call.req, 404, <<>>, {"select"})
       ELSE /\ inflight' = Await(Resume(call),
                                 [call EXCEPT !.at = "updating", !.existing = call.rows, !.now = clock])
            /\ answer' = NoAnswer
    /\ UNCHANGED <<impl, ADMIN_PASSWORD, imagesColumn, table, nextId, postsFile, clock>>

\* new images put in front of the existing ones
finalImages_merge(newImageUrls, existingImages) ==
    List(Elems(newImageUrls) \o Elems(existingImages))

\* the last new image taken as the primary image
finalImageUrl_last(newImageUrls, existingUrl, existingImages) ==
    IF Len(Elems(newImageUrls)) > 0 THEN Elems(newImageUrls)[Len(Elems(newImageUrls))]
    ELSE PathOr(existingUrl, First(existingImages))

\* the images and image_url a PUT writes
finalImages(newImageUrls, existingImages) ==
    IF Len(Elems(newImageUrls)) > 0 THEN newImageUrls ELSE existingImages

finalImageUrl(newImageUrls, existingUrl, existingImages) ==
    IF Len(Elems(newImageUrls)) > 0 THEN Elems(newImageUrls)[1]
    ELSE PathOr(existingUrl, First(existingImages))

\* an UPDATE ... SET that stamps updated_at with the creation time
UpdatedRow_createdAt(old, call) ==
    LET req == call.req
        existing == call.existing[1]
        existingImages == normalizeImages(existing.images)
        newImageUrls == imageUrlsOf(req.files)
    IN  [old EXCEPT !.title = req.title,
                    !.category = OrEmpty(req.category),
                    !.content = req.content,
                    !.affiliate_link = OrEmpty(req.affiliateLink),
                    !.images = JSONstringify(finalImages(newImageUrls, existingImages)),
                    !.image_url = finalImageUrl(newImageUrls, existing.image_url,
                                                existingImages),
                    !.updated_at = old.created_at]

\* the row UPDATE ... SET leaves in place of old, with the parameters the
\* handler computed from the row its SELECT returned
UpdatedRow(old, call) ==
    LET req == call.req
        existing == call.existing[1]
        existingImages == normalizeImages(existing.images)
        newImageUrls == imageUrlsOf(req.files)
    IN  [old EXCEPT !.title = req.title,
                    !.category = OrEmpty(req.category),
                    !.content = req.content,
                    !.affiliate_link = OrEmpty(req.affiliateLink),
                    !.images = JSONstringify(finalImages(newImageUrls, existingImages)),
                    !.image_url = finalImageUrl(newImageUrls, existing.image_url,
                                                existingImages),
                    !.updated_at = call.now]

\* the execution of the UPDATE of a PUT
UpdatePostWrite(call) ==
    /\ impl = "pg"
    /\ BagIn(call, inflight)
    /\ call.at = "updating"
    /\ LET matched == RowsWithId(call.req.id)
           old == CHOOSE r \in matched : TRUE
           new == UpdatedRow(old, call)
       IN  IF matched # {}
           THEN /\ table' = (table \ {old}) \cup {new}
                /\ inflight' = Await(Resume(call),
                                     [call EXCEPT !.at = "updated", !.rows = <<PgRow(new)>>])
           ELSE /\ table' = table
                /\ inflight' = Await(Resume(call),
                                     [call EXCEPT !.at = "updated", !.rows = <<>>])
    /\ answer' = NoAnswer
    /\ UNCHANGED <<impl, ADMIN_PASSWORD, imagesColumn, nextId, postsFile, clock>>

\* PUT /api/posts/:id from the result of its UPDATE on (lines 247-252):
\* mapDbPost(undefined) throws when the UPDATE matched no row, and the
\* catch answers 500
UpdatePostAnswer(call) ==
    /\ impl = "pg"
    /\ BagIn(call, inflight)
    /\ call.at = "updated"
    /\ inflight' = Resume(call)
    /\ answer' = IF Len(call.rows) > 0
                 THEN Answer("update", call.req, 200, <<mapDbPost(call.rows[1])>>,
                             {"select", "update"})
                 ELSE Answer("update", call.req, 500, <<>>, {"select", "update"})
    /\ UNCHANGED <<impl, ADMIN_PASSWORD, imagesColumn, table, nextId, postsFile, clock>>

\* DELETE /api/posts/:id up to its await, and the execution of its DELETE
DeletePost(req) ==
    /\ impl = "pg"
    /\ IF Unauthorized(req)
       THEN /\ answer' = Answer("delete", req, 401, <<>>, {})
            /\ UNCHANGED <<table, inflight>>
       ELSE LET deleted == RowsWithId(req.id)
                rows == IF deleted = {} THEN <<>> ELSE <<[id |-> req.id]>>
            IN  /\ table' = table \ deleted
                /\ inflight' = Await(inflight, Call("delete", "deleted", req, rows))
                /\ answer' = NoAnswer
    /\ UNCHANGED <<impl, ADMIN_PASSWORD, imagesColumn, nextId, postsFile, clock>>

\* DELETE /api/posts/:id from the result of its DELETE on (lines 273-277)
DeletePostAnswer(call) ==
    /\ impl = "pg"
    /\ BagIn(call, inflight)
    /\ call.at = "deleted"
    /\ inflight' = Resume(call)
    /\ answer' = Answer("delete", call.req, IF Len(call.rows) = 0 THEN 404 ELSE 200,
                        <<>>, {"delete"})
    /\ UNCHANGED <<impl, ADMIN_PASSWORD, imagesColumn, table, nextId, postsFile, clock>>

\* ORDER BY created_at ASC
OrderedByCreatedAtDesc_asc(rows) ==
    { s \in [1..Cardinality(rows) -> rows] :
        /\ \A i, j \in DOMAIN s : i # j => s[i] # s[j]
        /\ \A i, j \in DOMAIN s : i < j => s[i].created_at <= s[j].created_at }

\* the results SELECT ... ORDER BY created_at DESC can give: every order of
\* the rows in which created_at never increases
OrderedByCreatedAtDesc(rows) ==
    { s \in [1..Cardinality(rows) -> rows] :
        /\ \A i, j \in DOMAIN s : i # j => s[i] # s[j]
        /\ \A i, j \in DOMAIN s : i < j => s[i].created_at >= s[j].created_at }

\* GET /api/posts up to its await, and the execution of its SELECT
ListPosts ==
    /\ impl = "pg"
    /\ \E result \in OrderedByCreatedAtDesc(table) :
          inflight' = Await(inflight, Call("list", "listed", NoRequest,
                                           [i \in DOMAIN result |-> PgRow(result[i])]))
    /\ answer' = NoAnswer
    /\ UNCHANGED <<impl, ADMIN_PASSWORD, imagesColumn, table, nextId, postsFile, clock>>

\* GET /api/posts from the result of its SELECT on (lines 114-115)
ListPostsAnswer(call) ==
    /\ impl = "pg"
    /\ BagIn(call, inflight)
    /\ call.at = "listed"
    /\ inflight' = Resume(call)
    /\ answer' = Answer("list", NoRequest, 200,
                        [i \in DOMAIN call.rows |-> mapDbPost(call.rows[i])], {"select"})
    /\ UNCHANGED <<impl, ADMIN_PASSWORD, imagesColumn, table, nextId, postsFile, clock>>

----------------------------------------------------------------------------
(* src/unnamed/part_000: the handlers are synchronous, each runs alone *)

\* readPosts(): JSON.parse of the file, [] when the file is absent or empty
readPosts == postsFile

\* the index of the first post with this id, 0 for findIndex's -1
findIndex(posts, id) ==
    IF \E i \in DOMAIN posts : posts[i].id = id
    THEN CHOOSE i \in DOMAIN posts : posts[i].id = id /\ \A j \in 1..(i - 1) : posts[j].id # id
    ELSE 0

\* the post a POST stores: idNow is the clock read at line 117, dateNow the
\* clock read at line 124
newPost(req, idNow, dateNow) ==
    LET imageUrls == imageUrlsOf(req.files)
    IN  [id |-> idNow,
         title |-> req.title,
         category |-> OrEmpty(req.category),
         content |-> req.content,
         images |-> imageUrls,
         imageUrl |-> First(imageUrls),
         affiliateLink |-> OrEmpty(req.affiliateLink),
         date |-> toISOString(dateNow),
         updatedAt |-> NoPath]

\* POST /api/posts; the clock is later when the handler reads it the second
\* time
CreatePostFile(req, later) ==
    /\ impl = "file"
    /\ IF Unauthorized(req)
       THEN /\ answer' = Answer("create", req, 401, <<>>, {})
            /\ UNCHANGED <<postsFile, clock>>
       ELSE IF MissingFields(req)
       THEN /\ answer' = Answer("create", req, 400, <<>>, {})
            /\ UNCHANGED <<postsFile, clock>>
       ELSE /\ clock' = later
            /\ postsFile' = Append(readPosts, newPost(req, clock, later))
            /\ answer' = Answer("create", req, 200, <<newPost(req, clock, later)>>,
                              {"read", "write"})
    /\ UNCHANGED <<impl, ADMIN_PASSWORD, imagesColumn, table, nextId, inflight>>

updatedPost(existingPost, req, now) ==
    LET newImageUrls == imageUrlsOf(req.files)
    IN  [existingPost EXCEPT
            !.title = req.title,
            !.category = req.category,
            !.content = req.content,
            !.affiliateLink = req.affiliateLink,
            !.images = finalImages(newImageUrls, existingPost.images),
            !.imageUrl = finalImageUrl(newImageUrls, existingPost.imageUrl, existingPost.images),
            !.updatedAt = toISOString(now)]

\* PUT /api/posts/:id
UpdatePostFile(req) ==
    /\ impl = "file"
    /\ IF Unauthorized(req)
       THEN /\ answer' = Answer("update", req, 401, <<>>, {})
            /\ UNCHANGED postsFile
       ELSE IF MissingFields(req)
       THEN /\ answer' = Answer("update", req, 400, <<>>, {})
            /\ UNCHANGED postsFile
       ELSE LET posts == readPosts
                idx == findIndex(posts, req.id)
            IN  IF idx = 0
                THEN /\ answer' = Answer("update", req, 404, <<>>, {"read"})
                     /\ UNCHANGED postsFile
                ELSE /\ postsFile' = [posts EXCEPT ![idx] = updatedPost(posts[idx], req, clock)]
                     /\ answer' = Answer("update", req, 200,
                                       <<updatedPost(posts[idx], req, clock)>>, {"read", "write"})
    /\ UNCHANGED <<impl, ADMIN_PASSWORD, imagesColumn, table, nextId, clock, inflight>>

\* DELETE /api/posts/:id
DeletePostFile(req) ==
    /\ impl = "file"
    /\ IF Unauthorized(req)
       THEN /\ answer' = Answer("delete", req, 401, <<>>, {})
            /\ UNCHANGED postsFile
       ELSE LET kept == SelectSeq(readPosts, LAMBDA p : p.id # req.id)
            IN  IF Len(kept) = Len(readPosts)
                THEN /\ answer' = Answer("delete", req, 404, <<>>, {"read"})
                     /\ UNCHANGED postsFile
                ELSE /\ postsFile' = kept
                     /\ answer' = Answer("delete", req, 200, <<>>, {"read", "write"})
    /\ UNCHANGED <<impl, ADMIN_PASSWORD, imagesColumn, table, nextId, clock, inflight>>

\* posts.sort((a, b) => new Date(b.date) - new Date(a.date)): a stable sort,
\* here by insertion
RECURSIVE InsertByDate(_, _)
InsertByDate(sorted, p) ==
    IF sorted = <<>> THEN <<p>>
    ELSE IF DateOf(p.date) - DateOf(sorted[Len(sorted)].date) > 0
         THEN Append(InsertByDate(SubSeq(sorted, 1, Len(sorted) - 1), p), sorted[Len(sorted)])
         ELSE Append(sorted, p)

RECURSIVE sortNewestFirst(_)
sortNewestFirst(posts) ==
    IF posts = <<>> THEN <<>>
    ELSE InsertByDate(sortNewestFirst(SubSeq(posts, 1, Len(posts) - 1)), posts[Len(posts)])

\* GET /api/posts
ListPostsFile ==
    /\ impl = "file"
    /\ answer' = Answer("list", NoRequest, 200, sortNewestFirst(readPosts), {"read"})
    /\ UNCHANGED <<impl, ADMIN_PASSWORD, imagesColumn, table, nextId, postsFile, clock, inflight>>

----------------------------------------------------------------------------
(* The arrays GET /api/posts can answer when its SELECT or its read runs  *)
(* in the current state                                                    *)

Listings ==
    IF impl = "pg"
    THEN { [i \in DOMAIN r |-> mapDbPost(PgRow(r[i]))] : r \in OrderedByCreatedAtDesc(table) }
    ELSE { sortNewestFirst(readPosts) }

----------------------------------------------------------------------------
(* The clock *)

Tick ==
    /\ clock' = clock + 1
    /\ answer' = NoAnswer
    /\ UNCHANGED <<impl, ADMIN_PASSWORD, imagesColumn, table, nextId, postsFile, inflight>>

----------------------------------------------------------------------------
(* The posts every client sees, whichever the server *)

Collection ==
    IF impl = "pg" THEN { mapDbPost(PgRow(r)) : r \in table }
    ELSE { postsFile[i] : i \in DOMAIN postsFile }

Stored == <<table, postsFile>>

\* the handlers of server.js that wait at an await
Waiting == BagToSet(inflight)

----------------------------------------------------------------------------
(* Specification Spec: up to MaxPosts posts and MaxInflight handlers of     *)
(* server.js at a time; authorized, valid requests without uploaded files  *)

Init ==
    /\ impl \in {"pg", "file"}
    /\ ADMIN_PASSWORD \in Secrets
    /\ imagesColumn \in (IF impl = "pg" THEN {"jsonb", "text"} ELSE {"jsonb"})
    /\ table = {}
    /\ nextId = 1
    /\ postsFile = <<>>
    /\ clock = 1
    /\ inflight = EmptyBag
    /\ answer = NoAnswer

\* the requests that can arrive now
Requests(ids, fields, draws) ==
    { Request(pw, id, f, files) :
        pw \in Passwords, id \in ids, f \in fields, files \in FileLists(draws, clock) }

\* the second clock reading of a handler that started at clock
Later == { t \in {clock, clock + 1} : t <= MaxClock }

\* the steps of the handlers of server.js after their first statement
Continue ==
    \E call \in Waiting :
        \/ CreatePostAnswer(call)
        \/ UpdatePostPrepare(call)
        \/ UpdatePostWrite(call)
        \/ UpdatePostAnswer(call)
        \/ DeletePostAnswer(call)
        \/ ListPostsAnswer(call)

\* a POST creates with these fields, a PUT updates to those
CreateFields == { Fields("t1", "c1", "b1", "a1") }
UpdateFields == { Fields("t2", Undef, "b1", Undef) }

\* authorized requests without files
Authorized(ids, fields) ==
    { Request(ADMIN_PASSWORD, id, f, <<>>) : id \in ids, f \in fields }

Next ==
    \/ \E req \in Authorized({0}, CreateFields) :
          /\ nextId <= MaxPosts
          /\ BagCardinality(inflight) < MaxInflight
          /\ CreatePost(req)
    \/ \E req \in Authorized(Ids, UpdateFields) :
          /\ BagCardinality(inflight) < MaxInflight
          /\ UpdatePostSelect(req)
    \/ \E req \in Authorized(Ids, {NoFields}) :
          /\ BagCardinality(inflight) < MaxInflight
          /\ DeletePost(req)
    \/ BagCardinality(inflight) < MaxInflight /\ ListPosts
    \/ Continue
    \/ \E req \in Authorized({0}, CreateFields), later \in Later :
          /\ Len(postsFile) < MaxPosts
          /\ CreatePostFile(req, later)
    \/ \E req \in Authorized(Ids, UpdateFields) : UpdatePostFile(req)
    \/ \E req \in Authorized(Ids, {NoFields}) : DeletePostFile(req)
    \/ ListPostsFile
    \/ clock < MaxClock /\ Tick

Spec == Init /\ [][Next]_vars

----------------------------------------------------------------------------
(* Specification SpecStamp: one post; the requests of Spec,                 *)
(* and with them requests the servers refuse for a wrong password          *)
(* or an empty content; MaxInflight handlers of server.js at a time        *)

Refused(ids, fields) ==
    { Request("bad", id, f, <<>>) : id \in ids, f \in fields }

RefusedOrInvalid(ids, fields) ==
    Refused(ids, fields)
        \cup { Request(ADMIN_PASSWORD, id, Fields("t2", Undef, "", Undef), <<>>) : id \in ids }

NextStamp ==
    \/ \E req \in Authorized({0}, CreateFields) \cup RefusedOrInvalid({0}, CreateFields) :
          /\ \/ Unauthorized(req) \/ MissingFields(req)
             \/ nextId <= MaxImagePosts /\ BagCardinality(inflight) < MaxInflight
          /\ CreatePost(req)
    \/ \E req \in Authorized(Ids, UpdateFields) \cup RefusedOrInvalid(Ids, UpdateFields) :
          /\ \/ Unauthorized(req) \/ MissingFields(req)
             \/ BagCardinality(inflight) < MaxInflight
          /\ UpdatePostSelect(req)
    \/ \E req \in Authorized(Ids, {NoFields}) \cup Refused(Ids, {NoFields}) :
          /\ Unauthorized(req) \/ BagCardinality(inflight) < MaxInflight
          /\ DeletePost(req)
    \/ BagCardinality(inflight) < MaxInflight /\ ListPosts
    \/ Continue
    \/ \E req \in Authorized({0}, CreateFields) \cup RefusedOrInvalid({0}, CreateFields),
           later \in Later :
          /\ Unauthorized(req) \/ MissingFields(req) \/ Len(postsFile) < MaxImagePosts
          /\ CreatePostFile(req, later)
    \/ \E req \in Authorized(Ids, UpdateFields) \cup RefusedOrInvalid(Ids, UpdateFields) :
          UpdatePostFile(req)
    \/ \E req \in Authorized(Ids, {NoFields}) \cup Refused(Ids, {NoFields}) :
          DeletePostFile(req)
    \/ ListPostsFile
    \/ clock < MaxClock /\ Tick

SpecStamp == Init /\ [][NextStamp]_vars

----------------------------------------------------------------------------
(* Specification SpecGate: requests with every password and every kind of  *)
(* fields, without uploaded files; MaxWaiting handlers of server.js at a   *)
(* time                                                                    *)

NextGate ==
    \/ \E req \in Requests({0}, ValidFields \cup InvalidFields, {<<>>}) :
          /\ nextId <= MaxPosts
          /\ BagCardinality(inflight) < MaxWaiting
          /\ CreatePost(req)
    \/ \E req \in Requests(Ids, ValidFields \cup InvalidFields, {<<>>}) :
          /\ BagCardinality(inflight) < MaxWaiting
          /\ UpdatePostSelect(req)
    \/ \E req \in Requests(Ids, {NoFields}, {<<>>}) :
          /\ BagCardinality(inflight) < MaxWaiting
          /\ DeletePost(req)
    \/ BagCardinality(inflight) < MaxWaiting /\ ListPosts
    \/ Continue
    \/ \E req \in Requests({0}, ValidFields \cup InvalidFields, {<<>>}), later \in Later :
          /\ Len(postsFile) < MaxPosts
          /\ CreatePostFile(req, later)
    \/ \E req \in Requests(Ids, ValidFields \cup InvalidFields, {<<>>}) : UpdatePostFile(req)
    \/ \E req \in Requests(Ids, {NoFields}, {<<>>}) : DeletePostFile(req)
    \/ ListPostsFile
    \/ clock < MaxClock /\ Tick

SpecGate == Init /\ [][NextGate]_vars

----------------------------------------------------------------------------
(* Specification SpecImages: one post; authorized, valid requests with      *)
(* every list of uploaded files; MaxWaiting handlers of server.js at a time *)

\* authorized requests with the files multer stored for them
Uploads(ids, draws) ==
    { Request(ADMIN_PASSWORD, id, f, files) :
        id \in ids, f \in CreateFields, files \in FileLists(draws, clock) }

NextImages ==
    \/ \E req \in Uploads({0}, DrawLists) :
          /\ nextId <= MaxImagePosts
          /\ BagCardinality(inflight) < MaxWaiting
          /\ CreatePost(req)
    \/ \E req \in Uploads(Ids, DrawLists) :
          /\ BagCardinality(inflight) < MaxWaiting
          /\ UpdatePostSelect(req)
    \/ \E req \in Authorized(Ids, {NoFields}) :
          /\ BagCardinality(inflight) < MaxWaiting
          /\ DeletePost(req)
    \/ BagCardinality(inflight) < MaxWaiting /\ ListPosts
    \/ Continue
    \/ \E req \in Uploads({0}, DrawLists), later \in Later :
          /\ Len(postsFile) < MaxImagePosts
          /\ CreatePostFile(req, later)
    \/ \E req \in Uploads(Ids, DrawLists) : UpdatePostFile(req)
    \/ \E req \in Authorized(Ids, {NoFields}) : DeletePostFile(req)
    \/ ListPostsFile
    \/ clock < MaxClock /\ Tick

SpecImages == Init /\ [][NextImages]_vars

----------------------------------------------------------------------------
(* Specification SpecStored: the Stored-to-API mapping over rows the server *)
(* did not write itself: a table holding one row whose images and image_url *)
(* come from an older schema or another tool, read through GET /api/posts.  *)

StoredPaths == { UploadUrl(storage_filename("images", 1, r, ".png")) : r \in 0..MaxRand }
Tokens == {TokOpen, TokClose, TokComma, TokSpace} \cup { StrLit(p) : p \in StoredPaths }

\* the texts an images column holds: JSON, empty, blank, broken
Texts == UNION { [1..n -> Tokens] : n \in 0..MaxTextLen }

StoredRows ==
    { [id |-> 1, title |-> "t1", category |-> "c1", content |-> "b1",
       images |-> text, image_url |-> url, affiliate_link |-> "a1",
       created_at |-> 1, updated_at |-> NullTime] :
         text \in Texts, url \in StoredPaths \cup {NoPath} }

InitStored ==
    /\ impl = "pg"
    /\ ADMIN_PASSWORD \in Secrets
    /\ imagesColumn \in {"jsonb", "text"}
    /\ \E row \in StoredRows :
          \* a jsonb column only accepts JSON
          /\ imagesColumn = "jsonb" => JSONparse(row.images).ok
          /\ table = {row}
    /\ nextId = 2
    /\ postsFile = <<>>
    /\ clock = 1
    /\ inflight = EmptyBag
    /\ answer = NoAnswer

NextStored ==
    \/ BagCardinality(inflight) < MaxWaiting /\ ListPosts
    \/ \E call \in Waiting : ListPostsAnswer(call)

SpecStored == InitStored /\ [][NextStored]_vars

----------------------------------------------------------------------------
(* Specification SpecRace: concurrent PUT requests of src/server.js for one *)
(* post, with at most one uploaded file each                                *)

RaceDraws == { d \in DrawLists : Len(d) <= 1 }

InitRace == Init /\ impl = "pg"

NextRace ==
    \/ \E req \in Uploads({0}, RaceDraws) :
          /\ nextId <= MaxImagePosts
          /\ BagCardinality(inflight) < MaxInflight
          /\ CreatePost(req)
    \/ \E req \in Uploads(Ids, RaceDraws) :
          /\ BagCardinality(inflight) < MaxInflight
          /\ UpdatePostSelect(req)
    \/ \E call \in Waiting :
          \/ CreatePostAnswer(call)
          \/ UpdatePostPrepare(call)
          \/ UpdatePostWrite(call)
          \/ UpdatePostAnswer(call)
    \/ clock < MaxClock /\ Tick

SpecRace == InitRace /\ [][NextRace]_vars

----------------------------------------------------------------------------
(* Properties *)

Mutating == {"create", "update", "delete"}
PostsWithId(id) == { p \in Collection : p.id = id }
Occurrences(seq, p) == Cardinality({ i \in DOMAIN seq : seq[i] = p })
StoredOccurrences(p) ==
    IF impl = "pg" THEN (IF p \in Collection THEN 1 ELSE 0) ELSE Occurrences(postsFile, p)
IdsOf(seq) == [i \in DOMAIN seq |-> seq[i].id]

\* the step puts this handler at an await / takes it from one
Arrives(call) == CopiesIn(call, inflight') > CopiesIn(call, inflight)
Leaves(call) == CopiesIn(call, inflight') < CopiesIn(call, inflight)

\* C1: a create, update or delete request whose adminPassword differs from
\* the configured secret is answered 401 in the step that takes it, which
\* leaves the stored posts as they were; no statement is ever run for it.
C1_WrongSecretChangesNothing ==
    [][ /\ (answer'.op \in Mutating /\ answer'.req.adminPassword # ADMIN_PASSWORD)
            => (answer'.status = 401 /\ answer'.io = {} /\ Stored' = Stored)
        /\ \A call \in Waiting' :
              call.op \in Mutating => call.req.adminPassword = ADMIN_PASSWORD
      ]_vars

\* C1: a delete of a stored post has been refused for its wrong secret.
C1_Witness ==
    /\ answer.op = "delete"
    /\ answer.req.adminPassword = "bad"
    /\ answer.status = 401
    /\ PostsWithId(answer.req.id) # {}

\* C2: a POST without adminPassword is answered 401 and inserts nothing,
\* whatever the configured secret, unset included.
C2_MissingSecretRejected ==
    (answer.op = "create" /\ answer.req.adminPassword = Undef)
        => (answer.status = 401 /\ answer.io = {} /\ answer.body = <<>>)

\* C3: every post answered by list, create or update that has images has
\* imageUrl equal to its first image.
C3_PrimaryImageIsFirst ==
    answer.op \in {"list", "create", "update"}
        => \A i \in DOMAIN answer.body :
              LET post == answer.body[i]
              IN  (IsList(post.images) /\ Len(Elems(post.images)) > 0)
                      => post.imageUrl = Elems(post.images)[1]

\* C3: an update has answered a post with two different images.
C3_Witness ==
    /\ answer.op = "update"
    /\ answer.status = 200
    /\ Len(Elems(answer.body[1].images)) = 2
    /\ Elems(answer.body[1].images)[1] # Elems(answer.body[1].images)[2]

\* what C4 asks of the post a successful update stores or answers: before
\* is the post as the update loaded it
C4_Rule(before, req, post) ==
    IF req.files = <<>>
    THEN /\ post.images = before.images
         /\ post.imageUrl = before.imageUrl
    ELSE /\ post.images = imageUrlsOf(req.files)
         /\ post.imageUrl = UploadUrl(req.files[1])

\* C4: a successful update without files stores and answers the images and
\* imageUrl the post had when the update loaded it; with files it stores
\* and answers exactly the new paths in upload order, and the first of
\* them as imageUrl.
C4_UpdateKeepsOrReplacesImages ==
    [][ /\ \A call \in Waiting :
              \* the UPDATE of server.js runs and matches a row
              (Leaves(call) /\ call.at = "updating" /\ RowsWithId(call.req.id) # {}) =>
                  \E after \in Collection' :
                      /\ after.id = call.req.id
                      /\ C4_Rule(mapDbPost(call.existing[1]), call.req, after)
                      /\ \E next \in Waiting' :
                            Arrives(next) /\ mapDbPost(next.rows[1]) = after
        /\ \A call \in Waiting :
              \* server.js answers the update
              (Leaves(call) /\ call.at = "updated" /\ answer'.status = 200) =>
                  /\ answer'.body[1] = mapDbPost(call.rows[1])
                  /\ C4_Rule(mapDbPost(call.existing[1]), call.req, answer'.body[1])
        /\ (impl = "file" /\ answer'.op = "update" /\ answer'.status = 200) =>
              LET idx == findIndex(postsFile, answer'.req.id)
              IN  /\ idx > 0
                  /\ answer'.body[1] = postsFile'[idx]
                  /\ C4_Rule(postsFile[idx], answer'.req, postsFile'[idx])
      ]_vars

\* C4: an update without files has answered a post that keeps two images.
C4_Witness ==
    /\ answer.op = "update"
    /\ answer.status = 200
    /\ answer.req.files = <<>>
    /\ Len(Elems(answer.body[1].images)) = 2

\* C5: an authorized delete of an id that is not stored when it runs
\* changes nothing and is answered 404; of an id that is stored it removes
\* the post with that id and nothing else and is answered 200.
C5_DeleteRemovesExactlyThatId ==
    [][ /\ \A call \in Waiting' :
              \* the DELETE of server.js runs
              (Arrives(call) /\ call.at = "deleted") =>
                  IF PostsWithId(call.req.id) = {}
                  THEN Len(call.rows) = 0 /\ Stored' = Stored
                  ELSE /\ Len(call.rows) > 0
                       /\ table' = { r \in table : r.id # call.req.id }
                       /\ Collection' = Collection \ PostsWithId(call.req.id)
        /\ \A call \in Waiting :
              \* server.js answers the delete
              (Leaves(call) /\ call.at = "deleted") =>
                  /\ answer'.op = "delete" /\ answer'.req = call.req
                  /\ answer'.status = (IF Len(call.rows) = 0 THEN 404 ELSE 200)
                  /\ Stored' = Stored
        /\ (impl = "file" /\ answer'.op = "delete"
                /\ answer'.req.adminPassword = ADMIN_PASSWORD) =>
              IF PostsWithId(answer'.req.id) = {}
              THEN answer'.status = 404 /\ Stored' = Stored
              ELSE /\ answer'.status = 200
                   /\ postsFile' = SelectSeq(postsFile, LAMBDA p : p.id # answer'.req.id)
                   /\ Collection' = Collection \ PostsWithId(answer'.req.id)
      ]_vars

\* C5: a delete has removed one of two stored posts.
C5_Witness ==
    /\ answer.op = "delete"
    /\ answer.status = 200
    /\ Cardinality(Collection) = 1
    /\ PostsWithId(answer.req.id) = {}

\* what C6 asks of the post a create has just stored
C6_Fresh(post) ==
    /\ \A p \in Collection : p.id # post.id /\ p.id <= post.id
    /\ post \in Collection'
    /\ \A l \in Listings' : \E i \in DOMAIN l : l[i] = post

\* C6: the post a create stores has an id that no stored post has, not
\* below the id of any stored post, is listed from then on, and is the post
\* the create answers.
C6_CreateAssignsFreshId ==
    [][ /\ \A call \in Waiting' :
              (Arrives(call) /\ call.at = "inserted") => C6_Fresh(mapDbPost(call.rows[1]))
        /\ \A call \in Waiting :
              (Leaves(call) /\ call.at = "inserted") =>
                  answer'.status = 200 /\ answer'.body[1] = mapDbPost(call.rows[1])
        /\ (impl = "file" /\ answer'.op = "create" /\ answer'.status = 200) =>
              C6_Fresh(answer'.body[1])
      ]_vars

\* the first half of C7: the array holds every stored post exactly once,
\* and the creation time never increases along it
C7_ListIsOrdered(body) ==
    /\ \A i \in DOMAIN body : StoredOccurrences(body[i]) = Occurrences(body, body[i])
    /\ \A p \in Collection : \E i \in DOMAIN body : body[i] = p
    /\ \A i, j \in DOMAIN body :
          i < j => DateOf(body[i].date) >= DateOf(body[j].date)

\* the list half of C7 over the steps of a GET: the array is the one of
\* the posts stored when the SELECT or the read of posts.json runs
C7_Lists ==
    /\ \A call \in Waiting' :
          (Arrives(call) /\ call.at = "listed") =>
              C7_ListIsOrdered([i \in DOMAIN call.rows |-> mapDbPost(call.rows[i])])
    /\ \A call \in Waiting :
          (Leaves(call) /\ call.at = "listed") =>
              answer'.body = [i \in DOMAIN call.rows |-> mapDbPost(call.rows[i])]
    /\ (impl = "file" /\ answer'.op = "list") => C7_ListIsOrdered(answer'.body)

\* the step stores the post of an update
C7_UpdateStored ==
    \/ \E call \in Waiting :
          Leaves(call) /\ call.at = "updating" /\ RowsWithId(call.req.id) # {}
    \/ impl = "file" /\ answer'.op = "update" /\ answer'.status = 200

\* C7 as claimed: a list answers every stored post once, newest first, and
\* an update leaves every post at the place it had in the list.
C7_UpdateKeepsEveryPosition ==
    [][ /\ C7_Lists
        /\ C7_UpdateStored =>
              \A before \in Listings, after \in Listings' : IdsOf(before) = IdsOf(after)
      ]_vars

\* C7 amended: a list answers every stored post once, newest first, and an
\* update leaves the creation time of every post, hence the order of any
\* two posts created at different times, as it was.
C7_UpdateKeepsOrderOfDifferentTimes ==
    [][ /\ C7_Lists
        /\ C7_UpdateStored =>
              \A before \in Listings, after \in Listings' :
                  /\ Len(before) = Len(after)
                  /\ \A i, j \in DOMAIN before :
                        DateOf(before[i].date) > DateOf(before[j].date) =>
                            \E k, l \in DOMAIN after :
                                /\ k < l
                                /\ after[k].id = before[i].id
                                /\ after[l].id = before[j].id
                                /\ after[k].date = before[i].date
                                /\ after[l].date = before[j].date
      ]_vars

\* C7: the older of two posts created at different times has been updated.
C7_Witness ==
    /\ answer.op = "update"
    /\ answer.status = 200
    /\ \E p \in Collection : DateOf(p.date) > DateOf(answer.body[1].date)

\* the title or the content of the request is missing or empty
C8_Invalid(req) == req.title \in {Undef, ""} \/ req.content \in {Undef, ""}

\* C8: an authorized create or update whose title or content is missing or
\* empty is answered 400 in the step that takes it, whether or not the id
\* of the update is stored; the step leaves the stored posts as they were,
\* and no statement is ever run for such a request.
C8_InvalidTouchesNothing ==
    [][ /\ ( /\ answer'.op \in {"create", "update"}
              /\ answer'.req.adminPassword = ADMIN_PASSWORD
              /\ C8_Invalid(answer'.req) )
              => (answer'.status = 400 /\ answer'.io = {} /\ Stored' = Stored)
        /\ \A call \in Waiting' :
              call.op \in {"create", "update"} => ~C8_Invalid(call.req)
      ]_vars

\* C8: an update with an empty content for an id that is not stored has
\* been answered 400.
C8_Witness ==
    /\ answer.op = "update"
    /\ answer.req.adminPassword = ADMIN_PASSWORD
    /\ answer.req.title = "t2"
    /\ answer.req.content = ""
    /\ answer.status = 400
    /\ PostsWithId(answer.req.id) = {}

\* C9: an authorized, valid update is answered 404 when its existence check
\* finds no post with its id and when its write finds none (a delete ran in
\* between); neither the write nor the answer changes the stored posts.
C9_UpdateOfMissingIdIs404 ==
    [][ /\ \A call \in Waiting :
              /\ (Leaves(call) /\ call.at = "selected" /\ Len(call.rows) = 0) =>
                      (answer'.status = 404 /\ Stored' = Stored)
              /\ (Leaves(call) /\ call.at = "updating" /\ PostsWithId(call.req.id) = {}) =>
                      Stored' = Stored
              /\ (Leaves(call) /\ call.at = "updated" /\ Len(call.rows) = 0) =>
                      (answer'.status = 404 /\ Stored' = Stored)
        /\ ( /\ impl = "file"
              /\ answer'.op = "update"
              /\ answer'.req.adminPassword = ADMIN_PASSWORD
              /\ ~C8_Invalid(answer'.req)
              /\ PostsWithId(answer'.req.id) = {} )
              => (answer'.status = 404 /\ Stored' = Stored)
      ]_vars

\* what C10 asks of the post an update of req stores or answers
C10_Fields(req, post) ==
    /\ post.id = req.id
    /\ post.title = req.title
    /\ post.content = req.content
    /\ post.category = (IF req.category = Undef THEN "" ELSE req.category)
    /\ post.affiliateLink = (IF req.affiliateLink = Undef THEN "" ELSE req.affiliateLink)

\* what C10 asks of the step that stores the post of an update of req
C10_Stores(req) ==
    /\ \E post \in Collection' : C10_Fields(req, post)
    /\ \A post \in Collection' :
          post.id = req.id =>
              /\ C10_Fields(req, post)
              /\ \E old \in PostsWithId(req.id) : old.date = post.date
    /\ \A p \in Collection : p.id # req.id => p \in Collection'
    /\ \A p \in Collection' : p.id # req.id => p \in Collection

\* C10: a successful update stores and answers the title, category, content
\* and affiliateLink of the request, "" for an absent category or
\* affiliateLink, keeps the id and creation time of the post and leaves
\* every other post as it was.
C10_UpdateOverwritesFields ==
    [][ /\ \A call \in Waiting :
              /\ (Leaves(call) /\ call.at = "updating" /\ PostsWithId(call.req.id) # {}) =>
                      C10_Stores(call.req)
              /\ (Leaves(call) /\ call.at = "updated" /\ Len(call.rows) > 0) =>
                      /\ answer'.status = 200
                      /\ C10_Fields(call.req, answer'.body[1])
                      /\ Stored' = Stored
        /\ (impl = "file" /\ answer'.op = "update" /\ answer'.status = 200) =>
              /\ C10_Stores(answer'.req)
              /\ C10_Fields(answer'.req, answer'.body[1])
      ]_vars

\* the step stores the post of an update of server.js: the post with the
\* id of the request has the updatedAt the handler read from the clock at
\* line 220, later than (or, amended, not before) its creation time, and
\* every other post is as it was
C11_StampedPg(call, later(_, _)) ==
    /\ \E post \in Collection' : post.id = call.req.id
    /\ \A post \in Collection' :
          IF post.id = call.req.id
          THEN /\ post.updatedAt = toISOString(call.now)
               /\ call.now <= clock'
               /\ later(call.now, DateOf(post.date))
          ELSE post \in Collection

\* the same of part_000, whose handler reads the clock in the step itself
C11_StampedFile(later(_, _)) ==
    LET post == answer'.body[1]
    IN  /\ post \in Collection'
        /\ post.updatedAt = toISOString(clock)
        /\ clock' = clock
        /\ later(clock, DateOf(post.date))
        /\ \A p \in Collection' : p = post \/ p \in Collection

\* what C11 asks of a step: a PUT of server.js takes the time of its update
\* from the clock; the step that stores the post of an update stamps it
\* with that time; any other step leaves the updatedAt of every post as it
\* was and the post it adds without one; a step that answers 401, 400 or
\* 404 leaves the stored posts as they were; the answer 200 of an update
\* carries the time of the update
C11_Rule(later(_, _)) ==
    /\ \A call \in Waiting' :
          (Arrives(call) /\ call.at = "updating") => call.now = clock
    /\ IF C7_UpdateStored
       THEN /\ \A call \in Waiting :
                  (Leaves(call) /\ call.at = "updating") => C11_StampedPg(call, later)
            /\ impl = "file" => C11_StampedFile(later)
       ELSE \A p \in Collection' : p \in Collection \/ p.updatedAt = NoPath
    /\ answer'.status \in {401, 400, 404} => Stored' = Stored
    /\ \A call \in Waiting :
          (Leaves(call) /\ call.at = "updated" /\ Len(call.rows) > 0) =>
              /\ answer'.status = 200
              /\ answer'.body[1].updatedAt = toISOString(call.now)
              /\ answer'.body[1].date # NoPath
              /\ later(call.now, DateOf(answer'.body[1].date))

\* C11 as claimed: a post has no updatedAt until an update stores it; the
\* update leaves it with an updatedAt that is the time of that update and
\* is later than its creation time; no other step, an answer 401, 400 or
\* 404 included, sets an updatedAt.
C11_UpdatedAtLaterThanCreatedAt ==
    [][ C11_Rule(LAMBDA u, c : u > c) ]_vars

\* C11 amended: the same, with an updatedAt that is not before the creation
\* time: an update in the millisecond of the create leaves both equal.
C11_UpdatedAtNotBeforeCreatedAt ==
    [][ C11_Rule(LAMBDA u, c : u >= c) ]_vars

\* C11: a post updated after the millisecond of its creation is stored and
\* answered, and an update of it with a wrong password has then been
\* refused.
C11_Witness ==
    /\ answer.op = "update"
    /\ answer.status = 401
    /\ \E post \in PostsWithId(answer.req.id) :
          /\ post.updatedAt # NoPath
          /\ DateOf(post.updatedAt) > DateOf(post.date)

\* C12: for a stored row whose images is a list, JSON text, an empty or
\* blank text or a text JSON.parse rejects, and whatever its image_url
\* holds, the post mapDbPost returns has images a list (the stored or
\* parsed list, empty for an empty, blank or rejected text) and imageUrl
\* equal to images[0], "" when images is empty.
C12_MappedImageUrlIsFirstImage ==
    answer.op = "list" =>
        \A i \in DOMAIN answer.body :
            LET post == answer.body[i]
                row == CHOOSE r \in table : r.id = post.id
                parsed == JSONparse(row.images)
            IN  /\ IsList(post.images)
                /\ ~parsed.ok => post.images = List(<<>>)
                /\ (parsed.ok /\ IsList(parsed.val)) => post.images = parsed.val
                /\ post.imageUrl = (IF Len(Elems(post.images)) > 0
                                    THEN Elems(post.images)[1] ELSE NoPath)

\* the requests whose handler the step starts: multer has stored their
\* files by then
C13_Taken ==
    { call.req : call \in { c \in Waiting' : Arrives(c) /\ c.at \in {"inserted", "selected"} } }
        \cup (IF impl = "file" /\ answer'.op \in {"create", "update"}
              THEN {answer'.req} ELSE {})

\* the paths of the files the stored posts and the waiting handlers refer to
C13_Referenced ==
    UNION { { Elems(p.images)[k] : k \in DOMAIN Elems(p.images) } : p \in Collection }
        \cup UNION { { UploadUrl(call.req.files[k]) : k \in DOMAIN call.req.files } :
                       call \in Waiting }

\* C13: the files multer stored for a create or an update have pairwise
\* distinct names, and none of them has the name of a file that a stored
\* post or a request in progress refers to, whatever clock readings and
\* random draws the filename generator saw.
C13_GeneratedFilenamesDistinct ==
    [][ \A req \in C13_Taken :
            /\ \A i, j \in DOMAIN req.files : i # j => req.files[i] # req.files[j]
            /\ \A i \in DOMAIN req.files : UploadUrl(req.files[i]) \notin C13_Referenced
      ]_vars

\* C14: the UPDATE of an update request without files leaves the images
\* and imageUrl stored for its post as they were just before it, whatever
\* other update ran between its SELECT and its UPDATE; so of two concurrent
\* updates of one id, one with files and one without, the images stored
\* once both are answered are those of the update with files.
C14_UpdateWithoutFilesKeepsStoredImages ==
    [][ \A call \in Waiting :
            (Leaves(call) /\ call.at = "updating" /\ call.req.files = <<>>) =>
                \A p \in Collection' :
                    p.id = call.req.id =>
                        \E q \in Collection :
                            /\ q.id = p.id
                            /\ q.images = p.images
                            /\ q.imageUrl = p.imageUrl
      ]_vars

====
